---- MODULE Spec2Model ----
(***************************************************************************)
(* A model of the Sudoku engine of jwsadler58/pythonista:                  *)
(*   src/sudokunista/sudokugame.py  class Sudoku (in-place solve, hsolve)  *)
(*   src/sudoku.py                  class Sudoku (whole-board-copy solve)  *)
(* A game object is the record [board, rows, cols, boxes, log, err].       *)
(* err = "" while no exception is in flight; a failed assert sets it to    *)
(* "AssertionError" and the enclosing calls stop where Python would        *)
(* unwind, leaving the object as mutated so far.                           *)
(***************************************************************************)
EXTENDS Integers, Sequences, FiniteSets, TLC

NSide == 9
NSquares == 81
BoxSide == 3

Squares == 0 .. (NSquares - 1)
Units == 0 .. (NSide - 1)
initset == {i + 1 : i \in 0 .. (NSide - 1)}
NoErr == ""
AssertionError == "AssertionError"
ValueError == "ValueError"

(* ---------------- coordinate map ---------------- *)
rcb(sq) ==
  LET r == sq \div NSide
      c == sq % NSide
      b == BoxSide * (r \div BoxSide) + (c \div BoxSide)
  IN  <<r, c, b>>

get_row(sq) == rcb(sq)[1]
get_col(sq) == rcb(sq)[2]
get_box(sq) == rcb(sq)[3]

(* the members of a set of numbers as a list in ascending order *)
SortedSeq(S) ==
  [k \in 1 .. Cardinality(S) |-> CHOOSE x \in S : Cardinality({y \in S : y < x}) = k - 1]

get_sqs_in_row(row) == [i \in 1 .. NSide |-> row * NSide + (i - 1)]
get_sqs_in_col(col) == [i \in 1 .. NSide |-> col + NSide * (i - 1)]
box_sq_map == [b \in Units |-> SortedSeq({sq \in Squares : get_box(sq) = b})]
get_sqs_in_box(box) == box_sq_map[box]

(* ---------------- construction ---------------- *)
NewGame ==
  [board |-> [sq \in Squares |-> 0],
   rows  |-> [r \in Units |-> initset],
   cols  |-> [c \in Units |-> initset],
   boxes |-> [b \in Units |-> initset],
   log   |-> <<>>,
   err   |-> NoErr]

(* ---------------- fill / unfill ---------------- *)
(* unfill that forgets to give the value back to the row *)
unfill_at_keeps_row(g, sq, value, r, c, b) ==
  IF value \in g.rows[r] \/ value \in g.cols[c] \/ value \in g.boxes[b]
  THEN [g EXCEPT !.err = AssertionError]
  ELSE [g EXCEPT !.board[sq] = 0,
                 !.cols[c] = @ \cup {value},
                 !.boxes[b] = @ \cup {value}]

(* the body of unfill once sq is known to hold value in row r, column c, box b *)
unfill_at(g, sq, value, r, c, b) ==
  IF value \in g.rows[r] \/ value \in g.cols[c] \/ value \in g.boxes[b]
  THEN [g EXCEPT !.err = AssertionError]
  ELSE [g EXCEPT !.board[sq] = 0,
                 !.rows[r] = @ \cup {value},
                 !.cols[c] = @ \cup {value},
                 !.boxes[b] = @ \cup {value}]

(* unfill without the early return on an empty square *)
unfill_unguarded(g, sq) ==
  IF g.err # NoErr THEN g
  ELSE IF sq \notin Squares THEN [g EXCEPT !.err = AssertionError]
  ELSE unfill_at(g, sq, g.board[sq], get_row(sq), get_col(sq), get_box(sq))

unfill(g, sq) ==
  IF g.err # NoErr THEN g
  ELSE IF sq \notin Squares THEN [g EXCEPT !.err = AssertionError]
  ELSE IF g.board[sq] = 0 THEN g
  ELSE unfill_at(g, sq, g.board[sq], get_row(sq), get_col(sq), get_box(sq))

(* the set returned by fill: the squares of every unit the assignment completed *)
Rng(s) == {s[i] : i \in DOMAIN s}

fill_completed(g, sq) ==
  (IF g.rows[get_row(sq)] = {} THEN Rng(get_sqs_in_row(get_row(sq))) ELSE {})
    \cup (IF g.cols[get_col(sq)] = {} THEN Rng(get_sqs_in_col(get_col(sq))) ELSE {})
    \cup (IF g.boxes[get_box(sq)] = {} THEN Rng(get_sqs_in_box(get_box(sq))) ELSE {})

(* fill that forgets to take the value out of the box set *)
fill_at_keeps_box(g1, sq, value, r, c, b) ==
  IF value = 0 \/ g1.err # NoErr THEN g1
  ELSE IF g1.board[sq] # 0 THEN [g1 EXCEPT !.err = AssertionError]
  ELSE IF value \notin g1.rows[r] \/ value \notin g1.cols[c] \/ value \notin g1.boxes[b]
       THEN [g1 EXCEPT !.err = AssertionError]
       ELSE [g1 EXCEPT !.board[sq] = value,
                       !.rows[r] = @ \ {value},
                       !.cols[c] = @ \ {value}]

(* fill that does not ask whether the column still has the value *)
fill_at_any_col(g1, sq, value, r, c, b) ==
  IF value = 0 \/ g1.err # NoErr THEN g1
  ELSE IF g1.board[sq] # 0 THEN [g1 EXCEPT !.err = AssertionError]
  ELSE IF value \notin g1.rows[r] \/ value \notin g1.boxes[b]
       THEN [g1 EXCEPT !.err = AssertionError]
       ELSE [g1 EXCEPT !.board[sq] = value,
                       !.rows[r] = @ \ {value},
                       !.cols[c] = @ \ {value},
                       !.boxes[b] = @ \ {value}]

(* the body of fill after the occupied square has been unfilled: g1 is the *)
(* object at that point, (r, c, b) the row, column and box of sq          *)
fill_at(g1, sq, value, r, c, b) ==
  IF value = 0 \/ g1.err # NoErr THEN g1
  ELSE IF g1.board[sq] # 0 THEN [g1 EXCEPT !.err = AssertionError]
  ELSE IF value \notin g1.rows[r] \/ value \notin g1.cols[c] \/ value \notin g1.boxes[b]
       THEN [g1 EXCEPT !.err = AssertionError]
       ELSE [g1 EXCEPT !.board[sq] = value,
                       !.rows[r] = @ \ {value},
                       !.cols[c] = @ \ {value},
                       !.boxes[b] = @ \ {value}]

(* fill that leaves the value of an occupied square where it is *)
fill_keeps_occupied(g, sq, value) ==
  IF g.err # NoErr THEN g
  ELSE IF sq \notin Squares \/ value \notin 0 .. 9 THEN [g EXCEPT !.err = AssertionError]
  ELSE fill_at(g, sq, value, get_row(sq), get_col(sq), get_box(sq))

fill(g, sq, value) ==
  IF g.err # NoErr THEN g
  ELSE IF sq \notin Squares \/ value \notin 0 .. 9 THEN [g EXCEPT !.err = AssertionError]
  ELSE fill_at(IF g.board[sq] # 0 THEN unfill(g, sq) ELSE g, sq, value,
               get_row(sq), get_col(sq), get_box(sq))

(* what fill hands back when it leaves the object as g2 *)
fill_returns(g2, sq, value) ==
  IF g2.err = NoErr /\ value # 0 THEN fill_completed(g2, sq) ELSE {}

fill_result(g, sq, value) == fill_returns(fill(g, sq, value), sq, value)

(* options that leave the box out of the intersection *)
get_sq_options_nobox(g, sq) ==
  IF g.board[sq] # 0 THEN {}
  ELSE g.rows[get_row(sq)] \cap g.cols[get_col(sq)]

(* options that are not emptied by a value in the square *)
get_sq_options_any(g, sq) ==
  g.rows[get_row(sq)] \cap g.cols[get_col(sq)] \cap g.boxes[get_box(sq)]

(* ---------------- queries ---------------- *)
get_sq_options(g, sq) ==
  IF g.board[sq] # 0 THEN {}
  ELSE g.rows[get_row(sq)] \cap g.cols[get_col(sq)] \cap g.boxes[get_box(sq)]

get_opens(g) == SortedSeq({i \in Squares : g.board[i] = 0})

(* the stable sort of the open squares by DoF: ascending DoF, or descending *)
(* when rev; squares of equal DoF keep their ascending index order         *)
RECURSIVE dof_concat(_, _, _)
dof_concat(g, d, rev) ==
  IF d > NSide THEN <<>>
  ELSE LET key == IF rev THEN NSide - d ELSE d
           lvl == SortedSeq({i \in Squares :
                     g.board[i] = 0 /\ Cardinality(get_sq_options(g, i)) = key})
       IN  lvl \o dof_concat(g, d + 1, rev)

(* the open squares ordered by freedom, those without any option left out *)
HasOption(g, sq) == get_sq_options(g, sq) # {}

get_opens_by_dof_pos(g, rev) ==
  SelectSeq(dof_concat(g, 0, rev), LAMBDA sq : HasOption(g, sq))

get_opens_by_dof(g, rev) == dof_concat(g, 0, rev)

nfilled(g) == Cardinality({i \in Squares : g.board[i] # 0})

(* set.pop() on a set that holds one value *)
pop(S) == CHOOSE v \in S : TRUE

(* the options of sq less those of the squares of a unit, sq itself included *)
uni_factor_self(g, sq, squares) ==
  get_sq_options(g, sq)
    \ UNION {get_sq_options(g, squares[j]) : j \in {k \in DOMAIN squares : g.board[squares[k]] = 0}}

(* the options of sq less those of every other empty square of the unit *)
uni_factor(g, sq, squares) ==
  get_sq_options(g, sq)
    \ UNION {get_sq_options(g, squares[j]) :
               j \in {k \in DOMAIN squares : squares[k] # sq /\ g.board[squares[k]] = 0}}

(* what a function that returns a value or None hands back: <<v>> or <<>> *)
None == <<>>

(* the row, then the column, then the box: the first that leaves one value *)
sq_has_unique(g, sq) ==
  IF Cardinality(uni_factor(g, sq, get_sqs_in_row(get_row(sq)))) = 1
  THEN <<pop(uni_factor(g, sq, get_sqs_in_row(get_row(sq))))>>
  ELSE IF Cardinality(uni_factor(g, sq, get_sqs_in_col(get_col(sq)))) = 1
  THEN <<pop(uni_factor(g, sq, get_sqs_in_col(get_col(sq))))>>
  ELSE IF Cardinality(uni_factor(g, sq, get_sqs_in_box(get_box(sq)))) = 1
  THEN <<pop(uni_factor(g, sq, get_sqs_in_box(get_box(sq))))>>
  ELSE None

(* ---------------- deduction passes ---------------- *)
(* both return <<game, n>>: the game after the pass and the number of fills *)

(* A loop over a range of indices is unfolded by halving the range: the  *)
(* iterations still run in ascending order, each on the result of the    *)
(* one before it. st is <<game, n>>; an exception ends the loop.         *)
intersect_at(g, i, n, options) ==
  IF Cardinality(options) = 1 THEN <<fill(g, i, pop(options)), n + 1>> ELSE <<g, n>>

intersect_sq(st, i) ==
  IF st[1].err # NoErr THEN st ELSE intersect_at(st[1], i, st[2], get_sq_options(st[1], i))

RECURSIVE intersect_range(_, _, _)
intersect_range(st, lo, hi) ==
  IF lo > hi \/ st[1].err # NoErr THEN st
  ELSE IF lo = hi THEN intersect_sq(st, lo)
  ELSE intersect_range(intersect_range(st, lo, (lo + hi) \div 2), (lo + hi) \div 2 + 1, hi)

intersect(g) == intersect_range(<<g, 0>>, 0, NSquares - 1)

(* the options of sq1 less those of the open squares listed before it only *)
sub_opt1_earlier(g, sq1, squares) ==
  get_sq_options(g, sq1)
    \ UNION {get_sq_options(g, squares[j]) :
               j \in {k \in DOMAIN squares : g.board[squares[k]] = 0 /\ squares[k] < sq1}}

(* opt1 of _sub_factor: the options of sq1 less those of every other open square *)
sub_opt1(g, sq1, squares) ==
  get_sq_options(g, sq1)
    \ UNION {get_sq_options(g, squares[j]) :
               j \in {k \in DOMAIN squares : g.board[squares[k]] = 0 /\ squares[k] # sq1}}

sub_factor_at(g, sq1, n, opt1) ==
  IF Cardinality(opt1) = 1 THEN <<fill(g, sq1, pop(opt1)), n + 1>> ELSE <<g, n>>

sub_factor_sq(st, squares, k) ==
  IF st[1].err # NoErr \/ st[1].board[squares[k]] # 0 THEN st
  ELSE sub_factor_at(st[1], squares[k], st[2], sub_opt1(st[1], squares[k], squares))

RECURSIVE sub_factor_range(_, _, _, _)
sub_factor_range(st, squares, lo, hi) ==
  IF lo > hi \/ st[1].err # NoErr THEN st
  ELSE IF lo = hi THEN sub_factor_sq(st, squares, lo)
  ELSE sub_factor_range(sub_factor_range(st, squares, lo, (lo + hi) \div 2), squares,
                        (lo + hi) \div 2 + 1, hi)

(* st[2] counts the fills of the units visited so far: n += _sub_factor(...) *)
sub_factor(st, squares) == sub_factor_range(st, squares, 1, Len(squares))

(* the 27 units with the rows ahead of the boxes *)
subtract_units_rows_first ==
  [u \in 1 .. (3 * NSide) |->
     IF u <= NSide THEN get_sqs_in_row(u - 1)
     ELSE IF u <= 2 * NSide THEN get_sqs_in_box(u - NSide - 1)
     ELSE get_sqs_in_col(u - 2 * NSide - 1)]

(* the 27 units in the order subtract visits them: boxes, rows, columns *)
subtract_units ==
  [u \in 1 .. (3 * NSide) |->
     IF u <= NSide THEN get_sqs_in_box(u - 1)
     ELSE IF u <= 2 * NSide THEN get_sqs_in_row(u - NSide - 1)
     ELSE get_sqs_in_col(u - 2 * NSide - 1)]

RECURSIVE subtract_range(_, _, _)
subtract_range(st, lo, hi) ==
  IF lo > hi \/ st[1].err # NoErr THEN st
  ELSE IF lo = hi THEN sub_factor(st, subtract_units[lo])
  ELSE subtract_range(subtract_range(st, lo, (lo + hi) \div 2), (lo + hi) \div 2 + 1, hi)

subtract(g) == subtract_range(<<g, 0>>, 1, 3 * NSide)

(* ---------------- str / preload ---------------- *)
Digit == <<"0", "1", "2", "3", "4", "5", "6", "7", "8", "9">>
IsDigit(ch) == \E d \in 0 .. 9 : Digit[d + 1] = ch
int(ch) == CHOOSE d \in 0 .. 9 : Digit[d + 1] = ch
(* the cell text of print(): an underscore for an empty cell *)
str_int_blank(v) == IF v = 0 THEN "_" ELSE Digit[v + 1]

str_int(v) == Digit[v + 1]

(* __str__: one decimal numeral per square, in index order *)
str(g) == [i \in 1 .. NSquares |-> str_int(g.board[i - 1])]

(* a preload argument is [kind |-> "str" | "list" | "other", val |-> sequence] *)
preload_sq_keeps(g, bd, i) ==
  IF g.err # NoErr THEN g
  ELSE IF bd[i + 1] # 0 THEN fill(g, i, bd[i + 1])
  ELSE g

preload_sq(g, bd, i) ==
  IF g.err # NoErr THEN g
  ELSE IF bd[i + 1] # 0 THEN fill(g, i, bd[i + 1])
  ELSE unfill(g, i)

RECURSIVE preload_range(_, _, _, _)
preload_range(g, bd, lo, hi) ==
  IF lo > hi \/ g.err # NoErr THEN g
  ELSE IF lo = hi THEN preload_sq(g, bd, lo)
  ELSE preload_range(preload_range(g, bd, lo, (lo + hi) \div 2), bd, (lo + hi) \div 2 + 1, hi)

preload_from(g, bd, i) == preload_range(g, bd, i, Len(bd) - 1)

(* returns <<game, return value>>: 0 for a loaded list, -1 for an argument *)
(* that is no list; when game.err is set the call raised and returned nothing *)
preload(g, arg) ==
  IF arg.kind = "str" /\ Len(arg.val) = NSquares
  THEN IF \E i \in DOMAIN arg.val : ~IsDigit(arg.val[i])
       THEN <<[g EXCEPT !.err = ValueError], 0>>
       ELSE <<preload_from(g, [i \in DOMAIN arg.val |-> int(arg.val[i])], 0), 0>>
  ELSE IF arg.kind = "list" THEN <<preload_from(g, arg.val, 0), 0>>
  ELSE <<g, -1>>

(* ---------------- copy constructors ---------------- *)
copy_sq(g, orig, sq) ==
  IF g.err # NoErr \/ orig.board[sq] = 0 THEN g ELSE fill(g, sq, orig.board[sq])

RECURSIVE copy_range(_, _, _, _)
copy_range(g, orig, lo, hi) ==
  IF lo > hi \/ g.err # NoErr THEN g
  ELSE IF lo = hi THEN copy_sq(g, orig, lo)
  ELSE copy_range(copy_range(g, orig, lo, (lo + hi) \div 2), orig, (lo + hi) \div 2 + 1, hi)

copy_from(g, orig, sq) == copy_range(g, orig, sq, NSquares - 1)

(* sudokugame.Sudoku(orig): replays the occupied squares, then copies the log *)
with_log(g, log) == IF g.err # NoErr THEN g ELSE [g EXCEPT !.log = log]

Sudoku(orig) == with_log(copy_from(NewGame, orig, 0), orig.log)

(* sudoku.Sudoku(orig): the class of src/sudoku.py keeps no log at construction *)
SudokuCopy(orig) == copy_from(NewGame, orig, 0)

(* ---------------- the trace tokens ---------------- *)
(* the count without its leading zero *)
fmt_plain(t) == IF t < 10 THEN <<Digit[t + 1]>> ELSE <<Digit[(t \div 10) + 1], Digit[(t % 10) + 1]>>

fmt02(t) == <<Digit[((t \div 10) % 10) + 1], Digit[(t % 10) + 1]>>
tok_i(t) == <<"i">> \o fmt02(t) \o <<" ">>
tok_s(t) == <<"s">> \o fmt02(t) \o <<" ">>
tok_r(depth) == <<"r">> \o fmt02(depth) \o <<" ">>
tok_guess == <<"_", "r", "_", " ">>

(* ---------------- the deduction loops of the solvers ---------------- *)
RECURSIVE intersect_loop(_, _)
intersect_again(res, t) ==
  IF res[2] = 0 \/ res[1].err # NoErr THEN <<res[1], t + res[2]>>
  ELSE intersect_loop(res[1], t + res[2])

intersect_loop(g, t) == intersect_again(intersect(g), t)

RECURSIVE subtract_loop(_, _)
subtract_again(res, t) ==
  IF res[2] = 0 \/ res[1].err # NoErr THEN <<res[1], t + res[2]>>
  ELSE subtract_loop(res[1], t + res[2])

subtract_loop(g, t) == subtract_again(subtract(g), t)

(* the pass of intersect with the squares taken in another order than  *)
(* range(81): order[k] is the k-th square looked at                     *)
RECURSIVE intersect_in_range(_, _, _, _)
intersect_in_range(st, order, lo, hi) ==
  IF lo > hi \/ st[1].err # NoErr THEN st
  ELSE IF lo = hi THEN intersect_sq(st, order[lo])
  ELSE intersect_in_range(intersect_in_range(st, order, lo, (lo + hi) \div 2), order,
                          (lo + hi) \div 2 + 1, hi)

intersect_in(g, order) == intersect_in_range(<<g, 0>>, order, 1, NSquares)

(* a loop that stops after its first pass *)
exhaust_once(res, order) == res[1]

(* that pass repeated until it fills nothing *)
RECURSIVE exhaust_in(_, _)
exhaust_again(res, order) ==
  IF res[2] = 0 \/ res[1].err # NoErr THEN res[1] ELSE exhaust_in(res[1], order)

exhaust_in(g, order) == exhaust_again(intersect_in(g, order), order)

Ascending == [k \in 1 .. NSquares |-> k - 1]
Descending == [k \in 1 .. NSquares |-> NSquares - k]
ByColumn == [k \in 1 .. NSquares |-> NSide * ((k - 1) % NSide) + ((k - 1) \div NSide)]
ScanOrders == {Ascending, Descending, ByColumn}

(* the log after a deduction loop that filled res[2] squares *)
log_total(res, tok) ==
  IF res[2] > 0 /\ res[1].err = NoErr THEN [res[1] EXCEPT !.log = @ \o tok] ELSE res[1]

log_i(res) == log_total(res, tok_i(res[2]))
log_s(res) == log_total(res, tok_s(res[2]))

(* intersect to exhaustion, then subtract to exhaustion, logging each total *)
deduce(g) == log_s(subtract_loop(log_i(intersect_loop(g, 0)), 0))

(* hsolve's rollback: unfill every square that was open at entry and is not now *)
RECURSIVE unwind_range(_, _, _, _)
unwind_range(g, opens, lo, hi) ==
  IF lo > hi \/ g.err # NoErr THEN g
  ELSE IF lo = hi THEN unfill(g, opens[lo])
  ELSE unwind_range(unwind_range(g, opens, lo, (lo + hi) \div 2), opens,
                    (lo + hi) \div 2 + 1, hi)

(* a failing hsolve that leaves its deductions on the board *)
unwind_none(g, opens, k) == g

unwind_from(g, opens, k) == unwind_range(g, opens, k, Len(opens))

(* the copy-back of a found solution in src/sudoku.py solve *)
RECURSIVE copyback_range(_, _, _, _)
copyback_range(g, bd, lo, hi) ==
  IF lo > hi \/ g.err # NoErr THEN g
  ELSE IF lo = hi THEN fill(g, lo, bd[lo])
  ELSE copyback_range(copyback_range(g, bd, lo, (lo + hi) \div 2), bd,
                      (lo + hi) \div 2 + 1, hi)

(* a found solution that is not copied back into the caller's object *)
copyback_none(g, bd, i) == g

copyback_from(g, bd, i) == copyback_range(g, bd, i, NSquares - 1)

(* ======================= the transposing note ======================= *)
(* psg/PSGbase.py: a note is a chromatic degree in a key with a transpose *)
(* offset; an exception is the name of its class in place of the result   *)
_noteNames ==
  "C" :> 0 @@ "C#" :> 1 @@ "Db" :> 1 @@ "D" :> 2 @@ "D#" :> 3 @@ "Eb" :> 3 @@ "E" :> 4
    @@ "F" :> 5 @@ "F#" :> 6 @@ "Gb" :> 6 @@ "G" :> 7 @@ "G#" :> 8 @@ "Ab" :> 8
    @@ "A" :> 9 @@ "A#" :> 10 @@ "Bb" :> 10 @@ "B" :> 11 @@ "Cb" :> 11

_degreeNames == <<"1", "b2", "2", "b3", "3", "4", "-5", "5", "b6", "6", "b7", "7">>

_sharpKeys == {"C", "G", "D", "A", "E", "B", "F#", "C#"}
sharpNotes == <<"C", "C#", "D", "D#", "E", "F", "F#", "G", "G#", "A", "A#", "B">>
flatNotes == <<"C", "Db", "D", "Eb", "E", "F", "Gb", "G", "Ab", "A", "Bb", "B">>

(* list[i] of Python: an index below zero counts from the end *)
item(list, i, n) ==
  IF i >= 0 /\ i < n THEN list[i + 1]
  ELSE IF i < 0 /\ i >= 0 - n THEN list[i + n + 1]
  ELSE "IndexError"

(* the chromatic degrees of an octave *)
NChromatic == 12

degreeToNote(degree, key) ==
  IF key \in _sharpKeys THEN sharpNotes[((_noteNames[key] + degree) % NChromatic) + 1]
  ELSE flatNotes[((_noteNames[key] + degree) % NChromatic) + 1]

noteToDegree(noteName, key) == (_noteNames[noteName] - _noteNames[key]) % NChromatic

Note(degree, key) == [degree |-> degree, key |-> key, xpose |-> 0]

fromName(name, key) == Note(noteToDegree(name, key), key)

fromDegreeName(degName, key) ==
  Note((CHOOSE i \in DOMAIN _degreeNames : _degreeNames[i] = degName) - 1, key)

(* a setTranspose that adds the offset to the one in force *)
setTranspose_adds(n, offset) == [n EXCEPT !.xpose = @ + offset]

setTranspose(n, offset) == [n EXCEPT !.xpose = offset]

getName(n) == degreeToNote(n.degree + n.xpose, n.key)

getDegreeName(n) == item(_degreeNames, n.degree, Len(_degreeNames))

(* ======================= the state machine ======================= *)
(* game   the Sudoku object the running code calls self                   *)
(* stack  the frames of the solver calls in progress, outermost first     *)
(* ret    what the call that returned last handed to its caller           *)
(* prob   the puzzle of the regression loop (empty before one is taken)   *)
(* done   per solver: whether it ran on prob, and how it ended            *)
(* last   the last call made on the object by a client, with its outcome  *)
(* nops   the number of client calls made so far                          *)
(* twin   the second object of a client that has copied its object: the   *)
(*        object itself, which of the two it is, and the fields whose     *)
(*        storage it shares with game                                     *)
(* note   a Note object, the name of its degree when it was made, and the *)
(*        offsets it has been transposed by since                         *)
VARIABLES game, stack, ret, prob, done, last, nops, twin, note

vars == <<game, stack, ret, prob, done, last, nops, twin, note>>

(* the number of calls a client makes on the object *)
MaxOps == 2

Solvers == {"solve", "hsolve", "copysolve"}

NoRet == [val |-> "none", kind |-> "none", entry |-> NewGame,
          bd |-> NewGame.board, log |-> <<>>]

NoLast == [op |-> "new", sq |-> 0, value |-> 0, arg |-> [kind |-> "none", val |-> <<>>],
           before |-> NewGame, rv |-> 0, completed |-> {}, n |-> 0,
           options |-> {}, found |-> None]

NotRun == [run |-> FALSE, ok |-> FALSE, raised |-> FALSE, game |-> NewGame]

NoTwin == [role |-> "none", obj |-> NewGame, shared |-> {}]

(* the copy constructor with one storage shared between the two objects too *)
copy_shares_rows == {"rcb", "box_sq_map", "rows"}

(* what Sudoku(orig) takes from orig by reference: the two constant maps; *)
(* board, rows, cols and boxes are built anew                             *)
copy_shares == {"rcb", "box_sq_map"}

(* the second object after game has become g2: a write to a field whose *)
(* storage the two share shows in both                                   *)
Seen(tw, g2, f) == IF f \in tw.shared THEN g2[f] ELSE tw.obj[f]

Synced(tw, g2) ==
  IF tw.role = "none" THEN tw
  ELSE [tw EXCEPT !.obj = [board |-> Seen(tw, g2, "board"), rows |-> Seen(tw, g2, "rows"),
                           cols |-> Seen(tw, g2, "cols"), boxes |-> Seen(tw, g2, "boxes"),
                           log |-> tw.obj.log, err |-> tw.obj.err]]

Made(n) == [self |-> n, born |-> getDegreeName(n), offsets |-> <<>>]

Init ==
  /\ note = Made(Note(0, "C"))
  /\ game = NewGame
  /\ stack = <<>>
  /\ ret = NoRet
  /\ prob = <<>>
  /\ done = [k \in Solvers |-> NotRun]
  /\ last = NoLast
  /\ nops = 0
  /\ twin = NoTwin

Idle == stack = <<>>

(* the object as the next client call finds it: an exception that escaped *)
(* the previous call has been reported and is no longer in flight         *)
Cleared(g) == [g EXCEPT !.err = NoErr]

(* sudokudb.save: the rating stored with a game is the length of its trace *)
rating(desc) == Len(desc)

(* ---------------- the inputs ---------------- *)
(* 81-cell grids in list form: a puzzle of the database (sudokudb.dbseed,   *)
(* 'Easy 1'), three puzzles that need a guess and a retraction, and three   *)
(* self-consistent grids that have no completion                            *)
GridEasy1 ==
  <<0, 0, 7, 0, 3, 0, 2, 9, 6,
    0, 0, 0, 1, 8, 0, 0, 0, 4,
    0, 9, 5, 6, 2, 0, 0, 3, 8,
    0, 1, 2, 0, 0, 0, 0, 7, 0,
    5, 7, 0, 0, 4, 0, 9, 0, 0,
    8, 3, 0, 0, 0, 1, 0, 0, 2,
    6, 4, 0, 0, 0, 2, 0, 0, 7,
    3, 5, 0, 0, 1, 4, 6, 0, 0,
    0, 0, 1, 0, 9, 0, 8, 0, 5>>

GridUniqueBT ==
  <<8, 0, 0, 1, 7, 9, 5, 4, 0,
    0, 0, 1, 2, 0, 0, 0, 7, 0,
    0, 7, 5, 0, 0, 4, 0, 9, 0,
    2, 0, 0, 9, 1, 0, 0, 0, 4,
    0, 0, 9, 8, 4, 7, 0, 5, 2,
    0, 0, 7, 0, 2, 5, 0, 1, 9,
    1, 0, 6, 5, 3, 8, 0, 2, 7,
    0, 3, 0, 7, 9, 2, 0, 0, 0,
    0, 0, 0, 0, 0, 0, 0, 0, 5>>

GridMultiBT ==
  <<8, 0, 9, 0, 0, 3, 0, 0, 7,
    0, 0, 3, 6, 7, 0, 0, 9, 0,
    0, 7, 6, 0, 9, 0, 2, 3, 1,
    0, 5, 0, 0, 0, 7, 0, 0, 0,
    0, 0, 0, 0, 4, 5, 7, 0, 0,
    0, 8, 0, 1, 0, 0, 3, 0, 4,
    0, 0, 1, 7, 0, 0, 5, 6, 8,
    0, 0, 8, 5, 0, 0, 0, 1, 0,
    0, 9, 0, 8, 1, 0, 4, 0, 0>>

GridDead6 ==
  <<0, 8, 7, 1, 3, 5, 2, 9, 6,
    0, 6, 3, 0, 8, 9, 7, 5, 4,
    4, 9, 5, 6, 2, 7, 1, 3, 8,
    9, 1, 0, 5, 6, 8, 4, 7, 3,
    5, 7, 6, 2, 4, 3, 9, 8, 1,
    8, 3, 4, 9, 7, 1, 5, 6, 2,
    0, 4, 9, 8, 5, 2, 3, 1, 7,
    0, 5, 8, 7, 1, 4, 6, 2, 9,
    7, 2, 1, 3, 9, 6, 8, 4, 5>>

GridDead12 ==
  <<1, 8, 0, 4, 3, 5, 2, 9, 6,
    2, 6, 3, 1, 8, 9, 7, 5, 4,
    0, 9, 5, 6, 2, 7, 1, 3, 8,
    9, 1, 2, 5, 6, 8, 4, 0, 0,
    5, 0, 6, 2, 7, 3, 9, 8, 1,
    8, 3, 0, 9, 0, 0, 5, 6, 2,
    6, 0, 0, 8, 5, 2, 3, 1, 7,
    3, 5, 0, 7, 1, 4, 6, 2, 9,
    7, 2, 0, 3, 9, 6, 8, 4, 5>>

(* a self-consistent grid without completion that no deduction pass changes *)
GridDeadDeep ==
  <<1, 8, 5, 4, 3, 7, 2, 9, 6,
    2, 6, 3, 1, 8, 9, 7, 5, 4,
    4, 9, 7, 6, 0, 0, 1, 3, 8,
    0, 1, 2, 0, 6, 0, 9, 7, 3,
    0, 7, 6, 0, 0, 3, 4, 8, 1,
    0, 3, 4, 0, 7, 1, 5, 6, 2,
    6, 4, 9, 0, 0, 0, 3, 1, 7,
    3, 5, 8, 7, 1, 4, 6, 2, 9,
    7, 2, 1, 3, 9, 6, 8, 4, 5>>

(* a puzzle on which the subtract loop leaves squares with one option *)
GridLateSingle ==
  <<1, 8, 7, 4, 3, 5, 2, 9, 6,
    2, 6, 3, 1, 8, 9, 7, 5, 4,
    0, 9, 0, 6, 2, 7, 1, 3, 8,
    9, 1, 2, 5, 6, 8, 4, 7, 3,
    0, 0, 0, 2, 4, 3, 9, 0, 1,
    0, 0, 0, 9, 7, 1, 5, 0, 2,
    6, 0, 0, 8, 5, 2, 3, 1, 0,
    0, 0, 8, 0, 1, 4, 6, 2, 0,
    0, 2, 1, 0, 9, 6, 8, 4, 5>>

Grids ==
  {GridEasy1, GridUniqueBT, GridMultiBT, GridDead6, GridDead12, GridDeadDeep, GridLateSingle}

ListArg(l) == [kind |-> "list", val |-> l]
StrArg(l) == [kind |-> "str", val |-> [i \in DOMAIN l |-> str_int(l[i])]]

(* well-formed arguments, and malformed ones: short, long, out of range,   *)
(* not a digit, neither string nor list, and a grid with a repeated value *)
GoodArgs == {ListArg(GridDead6), ListArg(GridEasy1), StrArg(GridDead12)}
BadArgs ==
  {ListArg(SubSeq(GridDead12, 1, 4)),
   ListArg(GridDead6 \o <<0>>),
   ListArg([GridDead6 EXCEPT ![3] = 10]),
   [kind |-> "str", val |-> SubSeq(StrArg(GridDead6).val, 1, 80)],
   [kind |-> "str", val |-> [StrArg(GridDead6).val EXCEPT ![3] = "x"]],
   [kind |-> "other", val |-> <<>>],
   ListArg([GridDead6 EXCEPT ![1] = 8])}

(* the squares and values the client calls are tried with *)
TouchSquares == {0, 1, 9}
TouchValues == {0, 1, 2, 8}

(* the squares the queries are tried on: those, and two squares of 'Easy 1' *)
(* whose value shows in the box only and in the column only                 *)
QuerySquares == TouchSquares \cup {24, 49}

(* ---------------- client calls on the object ---------------- *)
ClientStep(g2, l2) ==
  /\ Idle
  /\ nops < MaxOps
  /\ game' = g2
  /\ last' = l2
  /\ nops' = nops + 1
  /\ twin' = Synced(twin, g2)
  /\ UNCHANGED <<stack, ret, prob, done, note>>

Called(op, g) == [NoLast EXCEPT !.op = op, !.before = g]

FillOn(g, sq, value) ==
  ClientStep(fill(g, sq, value),
             [Called("fill", g) EXCEPT !.sq = sq, !.value = value,
                                       !.completed = fill_result(g, sq, value)])

DoFill(sq, value) == FillOn(Cleared(game), sq, value)

DoUnfill(sq) ==
  ClientStep(unfill(Cleared(game), sq), [Called("unfill", Cleared(game)) EXCEPT !.sq = sq])

Preloaded(op, g, arg, res) ==
  ClientStep(res[1], [Called(op, g) EXCEPT !.arg = arg, !.rv = res[2]])

DoPreload(arg) == Preloaded("preload", Cleared(game), arg, preload(Cleared(game), arg))

(* game2 = Sudoku(); game2.preload(str(game)): the object is saved as its *)
(* 81-character form and a fresh object is loaded from it                 *)
ReloadFrom(g, arg) == Preloaded("reload", g, arg, preload(NewGame, arg))

DoReload == ReloadFrom(Cleared(game), [kind |-> "str", val |-> str(Cleared(game))])

Deduced(op, g, res) == ClientStep(res[1], [Called(op, g) EXCEPT !.n = res[2]])

DoIntersect == Deduced("intersect", Cleared(game), intersect(Cleared(game)))

DoSubtract == Deduced("subtract", Cleared(game), subtract(Cleared(game)))

(* the two queries of a square: neither assigns to the object *)
DoOptions(sq) ==
  ClientStep(Cleared(game),
             [Called("get_sq_options", Cleared(game))
                EXCEPT !.sq = sq, !.options = get_sq_options(Cleared(game), sq)])

DoUnique(sq) ==
  ClientStep(Cleared(game),
             [Called("sq_has_unique", Cleared(game))
                EXCEPT !.sq = sq, !.found = sq_has_unique(Cleared(game), sq)])

(* game2 = Sudoku(game): the client goes on with the copy and keeps the *)
(* original as its second object                                        *)
Original(g) == [role |-> "orig", obj |-> g, shared |-> copy_shares]

CopyOf(g) ==
  /\ Idle
  /\ twin.role = "none"
  /\ nops < MaxOps
  /\ game' = Sudoku(g)
  /\ twin' = Original(g)
  /\ last' = Called("copy", g)
  /\ nops' = nops + 1
  /\ UNCHANGED <<stack, ret, prob, done, note>>

DoCopy == CopyOf(Cleared(game))

(* the client turns to its other object *)
TurnTo(g) ==
  /\ Idle
  /\ twin.role # "none"
  /\ game' = twin.obj
  /\ twin' = [twin EXCEPT !.role = IF @ = "orig" THEN "clone" ELSE "orig", !.obj = g]
  /\ last' = Called("turn", twin.obj)
  /\ UNCHANGED <<stack, ret, prob, done, nops, note>>

DoTurn == TurnTo(Cleared(game))

Next ==
  \/ DoCopy
  \/ DoTurn
  \/ \E sq \in TouchSquares, value \in TouchValues : DoFill(sq, value)
  \/ \E sq \in TouchSquares : DoUnfill(sq)
  \/ \E arg \in GoodArgs \cup BadArgs : DoPreload(arg)
  \/ DoReload
  \/ DoIntersect
  \/ DoSubtract
  \/ \E sq \in QuerySquares : DoOptions(sq)
  \/ \E sq \in QuerySquares : DoUnique(sq)

Spec == Init /\ [][Next]_vars

(* ======================= the solvers ======================= *)
(* One frame per call in progress. pc is the position in the body:        *)
(*   "enter"  the call has been made, nothing of the body has run         *)
(*   "pick"   (copysolve) at the head of the loop over the open squares   *)
(*   "loop"   at the head of the loop over the values of square sq        *)
(*   "wait"   a recursive call made for a value of sq is in progress      *)
(* opts holds the values of sq not yet tried, entry the object as it was  *)
(* when the call was entered, self (copysolve) the caller's own object    *)
(* while the call it made runs on the clone.                              *)
Frame(kind, depth, g) ==
  [kind |-> kind, pc |-> "enter", depth |-> depth, sq |-> 0, opts |-> {},
   opens |-> <<>>, k |-> 0, savelog |-> <<>>, self |-> NewGame, entry |-> g]

Top == stack[Len(stack)]
Below == SubSeq(stack, 1, Len(stack) - 1)
WithTop(f) == Below \o <<f>>

Outcome(val, g) ==
  [run |-> TRUE, ok |-> val \in {"True", "board"}, raised |-> val = "raise", game |-> g]

(* the effect of one step: the object, the stack and the value handed back; *)
(* an exception unwinds every frame and leaves the outermost call           *)
Raise(g2, kind0, gouter) ==
  /\ game' = [gouter EXCEPT !.err = g2.err]
  /\ stack' = <<>>
  /\ ret' = [NoRet EXCEPT !.val = "raise", !.kind = kind0]
  /\ done' = [done EXCEPT ![kind0] = Outcome("raise", gouter)]

Step(g2, stk2, r2) ==
  /\ UNCHANGED <<prob, last, nops, note>>
  /\ twin' = Synced(twin, g2)
  /\ IF g2.err # NoErr
     THEN Raise(g2, stack[1].kind,
                IF stack[1].kind = "copysolve" /\ Len(stack) > 1 THEN stack[1].self ELSE g2)
     ELSE /\ game' = g2
          /\ stack' = stk2
          /\ ret' = r2
          /\ done' = IF stk2 = <<>> THEN [done EXCEPT ![stack[1].kind] = Outcome(r2.val, g2)]
                     ELSE done

(* return val from the innermost call *)
Return(val, g2, bd) ==
  Step(g2, Below, [val |-> val, kind |-> Top.kind, entry |-> Top.entry,
                   bd |-> bd, log |-> g2.log])

Running(kind, pc) == ~Idle /\ Top.kind = kind /\ Top.pc = pc

(* the regression loop takes a puzzle; then, per solver, a new object is *)
(* loaded with it and the solver is called on that object                *)
TakeRow(p) ==
  /\ Idle
  /\ prob = <<>>
  /\ prob' = p
  /\ UNCHANGED <<game, stack, ret, done, last, nops, twin, note>>

Call(kind, g) ==
  /\ g.err = NoErr
  /\ game' = g
  /\ stack' = <<Frame(kind, 0, g)>>
  /\ ret' = NoRet
  /\ UNCHANGED <<prob, done, last, nops, twin, note>>

(* hsolve runs first and solve second, as in the loop of sudokugame.py; *)
(* the solve of src/sudoku.py is run on the same puzzle after them      *)
RunsAfter == [k \in Solvers |-> IF k = "hsolve" THEN {}
                                ELSE IF k = "solve" THEN {"hsolve"}
                                ELSE {"hsolve", "solve"}]

Begin(kind) ==
  /\ Idle
  /\ prob # <<>>
  /\ ~done[kind].run
  /\ \A k \in RunsAfter[kind] : done[k].run
  /\ Call(kind, preload(NewGame, IF kind = "hsolve" THEN StrArg(prob) ELSE ListArg(prob))[1])

(* ---- sudokugame.Sudoku.solve: in place, brute force ---- *)
SolveBranch(opens) ==
  IF Len(opens) = 0 THEN Return("True", game, game.board)
  ELSE Step(game,
            WithTop([Top EXCEPT !.pc = "loop", !.sq = opens[1],
                                !.opts = get_sq_options(game, opens[1])]),
            NoRet)

SolveEnter ==
  /\ Running("solve", "enter")
  /\ SolveBranch(get_opens_by_dof(game, FALSE))

(* a recursive call made on the object as it was when the caller was entered *)
Descend_unfilled(kind, g2, value) ==
  Step(Top.entry,
       WithTop([Top EXCEPT !.pc = "wait", !.opts = @ \ {value}])
         \o <<Frame(kind, Top.depth + 1, Top.entry)>>,
       NoRet)

Descend(kind, g2, value) ==
  Step(g2,
       WithTop([Top EXCEPT !.pc = "wait", !.opts = @ \ {value}])
         \o <<Frame(kind, Top.depth + 1, g2)>>,
       NoRet)

SolveGuess ==
  /\ Running("solve", "loop")
  /\ IF Top.opts = {} THEN Return("False", game, game.board)
     ELSE \E value \in Top.opts : Descend("solve", fill(game, Top.sq, value), value)

SolveResume ==
  /\ Running("solve", "wait")
  /\ IF ret.val = "True" THEN Return("True", game, game.board)
     ELSE Step(unfill(game, Top.sq), WithTop([Top EXCEPT !.pc = "loop"]), NoRet)

(* ---- sudokugame.Sudoku.hsolve: in place, deduction first ---- *)
HsolveBranch(opens, g1, open1) ==
  IF g1.err # NoErr THEN Step(g1, stack, NoRet)
  ELSE IF Len(open1) = 0 THEN Return("True", g1, g1.board)
  ELSE Step(g1,
            WithTop([Top EXCEPT !.pc = "loop", !.opens = opens, !.savelog = g1.log,
                                !.sq = open1[1], !.opts = get_sq_options(g1, open1[1])]),
            NoRet)

HsolveDeduced(opens, g1) == HsolveBranch(opens, g1, get_opens_by_dof(g1, TRUE))

HsolveEnter ==
  /\ Running("hsolve", "enter")
  /\ IF \A i \in Squares : game.board[i] # 0 THEN Return("True", game, game.board)
     ELSE HsolveDeduced(get_opens(game), deduce(game))

(* a guess that adds its mark to the trace as it stands *)
guess_log_append(g, savelog) == g.log \o tok_guess

(* the trace a guess starts its recursive call with: one mark per level *)
guess_log(g, savelog) == savelog \o tok_guess

HsolveFail(g2) == Return("False", g2, g2.board)

HsolveGuess ==
  /\ Running("hsolve", "loop")
  /\ IF Top.opts = {}
     THEN HsolveFail(unwind_from([game EXCEPT !.log = Top.savelog], Top.opens, 1))
     ELSE \E value \in Top.opts :
            Descend("hsolve", with_log(fill(game, Top.sq, value), guess_log(game, Top.savelog)),
                    value)

HsolveResume ==
  /\ Running("hsolve", "wait")
  /\ IF ret.val = "True" THEN Return("True", game, game.board)
     ELSE Step(unfill(game, Top.sq), WithTop([Top EXCEPT !.pc = "loop"]), NoRet)

(* ---- sudoku.Sudoku.solve of src/sudoku.py: every guess on a clone ---- *)
CopyBranch(g1, opens) ==
  IF g1.err # NoErr THEN Step(g1, stack, NoRet)
  ELSE IF Len(opens) = 0 THEN Return("board", g1, g1.board)
  ELSE Step(g1, WithTop([Top EXCEPT !.pc = "pick", !.opens = opens, !.k = 1]), NoRet)

CopyDeduced(g1) == CopyBranch(g1, get_opens_by_dof(g1, FALSE))

CopyEnter ==
  /\ Running("copysolve", "enter")
  /\ CopyDeduced(deduce([game EXCEPT !.log = <<>>]))

CopyOptions(sq, options) ==
  IF options = {} THEN Return("None", game, game.board)
  ELSE Step(game, WithTop([Top EXCEPT !.pc = "loop", !.sq = sq, !.opts = options]), NoRet)

CopyPick ==
  /\ Running("copysolve", "pick")
  /\ IF Top.k > Len(Top.opens) THEN Return("None", game, game.board)
     ELSE CopyOptions(Top.opens[Top.k],
                      game.rows[get_row(Top.opens[Top.k])]
                        \cap game.cols[get_col(Top.opens[Top.k])]
                        \cap game.boxes[get_box(Top.opens[Top.k])])

CopyDescend(testgame, value) ==
  Step(testgame,
       WithTop([Top EXCEPT !.pc = "wait", !.opts = @ \ {value}, !.self = game])
         \o <<Frame("copysolve", Top.depth + 1, testgame)>>,
       NoRet)

CopyGuess ==
  /\ Running("copysolve", "loop")
  /\ IF Top.opts = {}
     THEN Step(game, WithTop([Top EXCEPT !.pc = "pick", !.k = @ + 1]), NoRet)
     ELSE \E value \in Top.opts : CopyDescend(fill(SudokuCopy(game), Top.sq, value), value)

CopyFound(g2) == Return("board", g2, ret.bd)

CopyResume ==
  /\ Running("copysolve", "wait")
  /\ IF ret.val = "board"
     THEN CopyFound(copyback_from([Top.self EXCEPT !.log = @ \o tok_r(Top.depth) \o ret.log],
                                  ret.bd, 0))
     ELSE Step(Top.self, WithTop([Top EXCEPT !.pc = "loop"]), NoRet)

SolverStep ==
  \/ SolveEnter \/ SolveGuess \/ SolveResume
  \/ HsolveEnter \/ HsolveGuess \/ HsolveResume
  \/ CopyEnter \/ CopyPick \/ CopyGuess \/ CopyResume

SolveNext ==
  \/ \E p \in Grids : TakeRow(p)
  \/ \E kind \in Solvers : Begin(kind)
  \/ SolverStep

SolveSpec == Init /\ [][SolveNext]_vars

(* ---- a client that keeps the object: do_solve of sudokunista/sudoku.py ---- *)
(* calls hsolve on Sudoku(self.game); here the client calls a solver again on  *)
(* the object a top-level hsolve has returned from, or on a copy of it         *)
CallOn(kind, g, l2, tw2) ==
  /\ game' = g
  /\ twin' = tw2
  /\ stack' = <<Frame(kind, 0, g)>>
  /\ ret' = NoRet
  /\ last' = l2
  /\ nops' = nops + 1
  /\ UNCHANGED <<prob, done, note>>

Again(kind, copied) ==
  /\ Idle
  /\ ret.val \in {"True", "False"}
  /\ nops < MaxOps
  /\ CallOn(kind, IF copied THEN Sudoku(Cleared(game)) ELSE Cleared(game),
            [Called(kind, Cleared(game)) EXCEPT !.n = IF copied THEN 1 ELSE 0],
            IF copied THEN Original(Cleared(game)) ELSE twin)

(* re_rate run once more: a new object is loaded with the same puzzle and *)
(* hsolve is called on it; the outcome of the run before, itself on a new *)
(* object, is kept in last                                                *)
Repeat ==
  /\ Idle
  /\ done["hsolve"].run
  /\ last.op \in {"new", "repeat"}
  /\ nops < MaxOps
  /\ CallOn("hsolve", preload(NewGame, StrArg(prob))[1],
            [Called("repeat", done["hsolve"].game)
               EXCEPT !.n = IF done["hsolve"].ok THEN 1 ELSE 0],
            twin)

TraceNext ==
  \/ \E p \in Grids : TakeRow(p)
  \/ Begin("hsolve")
  \/ Repeat
  \/ \E kind \in {"hsolve", "solve"}, copied \in BOOLEAN : Again(kind, copied)
  \/ SolveEnter \/ SolveGuess \/ SolveResume
  \/ HsolveEnter \/ HsolveGuess \/ HsolveResume

TraceSpec == Init /\ [][TraceNext]_vars

(* ======================= calls on a note ======================= *)
(* the number of setTranspose calls made on a note *)
MaxCalls == 2

(* the keys, degrees, note and degree names a note is made from, and the *)
(* offsets it is transposed by                                           *)
Keys == DOMAIN _noteNames
Degrees == -1 .. 12
Offsets == {-13, -3, 0, 3, 7}

Notes ==
  {Note(degree, key) : degree \in Degrees, key \in Keys}
    \cup {fromName(name, key) : name \in DOMAIN _noteNames, key \in Keys}
    \cup {fromDegreeName(_degreeNames[i], key) : i \in DOMAIN _degreeNames, key \in Keys}

NoteInit ==
  /\ note \in {Made(n) : n \in Notes}
  /\ game = NewGame
  /\ stack = <<>>
  /\ ret = NoRet
  /\ prob = <<>>
  /\ done = [k \in Solvers |-> NotRun]
  /\ last = NoLast
  /\ nops = 0
  /\ twin = NoTwin

DoSetTranspose(offset) ==
  /\ Len(note.offsets) < MaxCalls
  /\ note' = [note EXCEPT !.self = setTranspose(@, offset), !.offsets = Append(@, offset)]
  /\ UNCHANGED <<game, stack, ret, prob, done, last, nops, twin>>

NoteNext == \E offset \in Offsets : DoSetTranspose(offset)

NoteSpec == NoteInit /\ [][NoteNext]_vars

(* ======================= properties ======================= *)
(* the values placed in a list of squares *)
Placed(g, squares) == {g.board[squares[i]] : i \in DOMAIN squares} \ {0}

(* each of the 27 candidate sets is {1..9} less the values placed in its unit *)
SetsMatchBoard(g) ==
  /\ \A r \in Units : g.rows[r] = initset \ Placed(g, get_sqs_in_row(r))
  /\ \A c \in Units : g.cols[c] = initset \ Placed(g, get_sqs_in_col(c))
  /\ \A b \in Units : g.boxes[b] = initset \ Placed(g, get_sqs_in_box(b))

SameCells(g, h) == g.board = h.board
SameSets(g, h) == g.rows = h.rows /\ g.cols = h.cols /\ g.boxes = h.boxes

(* no value twice in a list of squares *)
Distinct(g, squares) ==
  \A i, j \in DOMAIN squares :
    i # j /\ g.board[squares[i]] # 0 => g.board[squares[i]] # g.board[squares[j]]

NoRepeat(g) ==
  \A u \in Units : /\ Distinct(g, get_sqs_in_row(u))
                   /\ Distinct(g, get_sqs_in_col(u))
                   /\ Distinct(g, get_sqs_in_box(u))

(* every row, column and box holds each of 1..9 exactly once *)
Complete(g) ==
  /\ \A sq \in Squares : g.board[sq] # 0
  /\ \A u \in Units : /\ Placed(g, get_sqs_in_row(u)) = initset
                      /\ Placed(g, get_sqs_in_col(u)) = initset
                      /\ Placed(g, get_sqs_in_box(u)) = initset

(* ---- the completions of a puzzle, from the rules of the game alone ---- *)
PeersOf ==
  [sq \in Squares |->
     {p \in Squares \ {sq} : \/ p \div NSide = sq \div NSide
                             \/ p % NSide = sq % NSide
                             \/ /\ (p \div NSide) \div BoxSide = (sq \div NSide) \div BoxSide
                                /\ (p % NSide) \div BoxSide = (sq % NSide) \div BoxSide}]

(* a puzzle is the tuple of its 81 values, square sq at position sq + 1 *)
Candidates(bd, sq) == (1 .. NSide) \ {bd[p + 1] : p \in PeersOf[sq]}

Consistent(bd) == \A sq \in Squares : bd[sq + 1] # 0 => bd[sq + 1] \in Candidates(bd, sq)

Dof(bd, sq) == Cardinality(Candidates(bd, sq))

MinDof(bd, open) ==
  CHOOSE n \in 0 .. NSide : /\ \E s \in open : Dof(bd, s) = n
                            /\ \A s \in open : Dof(bd, s) >= n

PickAt(bd, open, n) == CHOOSE s \in open : Dof(bd, s) = n

Children(bd, sq) == {[bd EXCEPT ![sq + 1] = v] : v \in Candidates(bd, sq)}

(* the ways to fill the empty squares of bd so that no two peers agree, *)
(* found by exhaustive search on a square with the fewest candidates    *)
RECURSIVE CompletionsOf(_)
CompletionsFrom(bd, open) ==
  IF open = {} THEN {bd}
  ELSE UNION {CompletionsOf(b2) : b2 \in Children(bd, PickAt(bd, open, MinDof(bd, open)))}

CompletionsOf(bd) == CompletionsFrom(bd, {sq \in Squares : bd[sq + 1] = 0})

Completions == IF Consistent(prob) THEN CompletionsOf(prob) ELSE {}

(* the cells of an object as a tuple *)
Cells(g) == [i \in 1 .. NSquares |-> g.board[i - 1]]

(* the top-level call of solver kind has just returned *)
JustDone(kind) == Idle /\ ret.kind = kind /\ ret.val # "none"

Givens(g) == \A sq \in Squares : prob[sq + 1] # 0 => g.board[sq] = prob[sq + 1]

(* ----------------------- client calls ----------------------- *)

(* C1: after any sequence of fill and unfill calls on a board that starts   *)
(* empty, rejected calls included, every row, column and box candidate set *)
(* is exactly 1..9 less the values stored in the cells of that unit        *)
C1_SetsMatchBoard == SetsMatchBoard(game)

(* a fill was rejected on a board that holds values *)
C1_Witness ==
  /\ last.op = "fill"
  /\ game.err = AssertionError
  /\ nfilled(game) > 0

Rejected == last.op = "fill" /\ last.value # 0 /\ game.err = AssertionError

(* C4: a fill(sq, v) with v # 0 that is rejected because v is excluded by *)
(* the row, column or box of sq leaves the cells and the candidate sets   *)
(* as they were, the previous value of sq included                        *)
C4_RejectedFillKeepsState ==
  Rejected => SameCells(game, last.before) /\ SameSets(game, last.before)

(* C8: str(b) is 81 digit characters in square order with "0" for each    *)
(* empty cell, and preload(str(b)) on a fresh board gives the cells of b  *)
C8_StrRoundTrip ==
  /\ Len(str(game)) = NSquares
  /\ \A sq \in Squares : /\ IsDigit(str(game)[sq + 1])
                         /\ int(str(game)[sq + 1]) = game.board[sq]
                         /\ (str(game)[sq + 1] = "0") = (game.board[sq] = 0)
  /\ last.op = "reload" =>
       /\ game.err = NoErr
       /\ last.rv = 0
       /\ SameCells(game, last.before)
       /\ SameSets(game, last.before)

(* a board with filled and empty cells was saved and loaded again *)
C8_Witness ==
  /\ last.op = "reload"
  /\ nfilled(last.before) > 0
  /\ nfilled(last.before) < NSquares
  /\ game.board = last.before.board

Malformed(arg) ==
  /\ arg.kind \in {"str", "list"}
  /\ \/ Len(arg.val) # NSquares
     \/ arg.kind = "str" /\ \E i \in DOMAIN arg.val : ~IsDigit(arg.val[i])
     \/ arg.kind = "list" /\ \E i \in DOMAIN arg.val : arg.val[i] \notin 0..NSide

(* C9: preload rejects every malformed input, a string or list whose      *)
(* length is not 81 or which holds a value outside 0..9, with an error    *)
(* outcome and without changing any cell or candidate set                 *)
C9_MalformedRejected ==
  last.op = "preload" /\ Malformed(last.arg) =>
    /\ game.err # NoErr \/ last.rv = -1
    /\ SameCells(game, last.before)
    /\ SameSets(game, last.before)

(* C10: unfill(sq) on an empty cell changes nothing, so in every state    *)
(* unfill(sq); unfill(sq) leaves the board as a single unfill(sq) does    *)
C10_UnfillIdempotent ==
  /\ last.op = "unfill" /\ last.before.board[last.sq] = 0 => game = last.before
  /\ \A sq \in Squares :
       unfill(unfill(Cleared(game), sq), sq) = unfill(Cleared(game), sq)

(* unfill was called on an empty cell of a board that holds values *)
C10_Witness ==
  /\ last.op = "unfill"
  /\ last.before.board[last.sq] = 0
  /\ nfilled(last.before) > 0

(* C5: every assignment made by intersect() or subtract() puts a member   *)
(* of the cell's candidate set into an empty cell, so a pass never fails  *)
(* a fill, never overwrites a cell and never repeats a value in a unit    *)
C5_DeductionSound ==
  last.op \in {"intersect", "subtract"} =>
    /\ game.err = NoErr
    /\ \A sq \in Squares :
         last.before.board[sq] # 0 => game.board[sq] = last.before.board[sq]
    /\ \A sq \in Squares :
         game.board[sq] # last.before.board[sq] =>
           game.board[sq] \in get_sq_options(last.before, sq)
    /\ nfilled(game) = nfilled(last.before) + last.n
    /\ SetsMatchBoard(game)
    /\ NoRepeat(last.before) => NoRepeat(game)

(* a pass of subtract has filled cells *)
C5_Witness ==
  /\ last.op = "subtract"
  /\ last.n > 0

(* ----------------------- the solvers ----------------------- *)

(* C2: on every loadable board that has at least one completion, solve()  *)
(* and hsolve() return success, and then no cell is empty, every row,     *)
(* column and box holds 1..9 once each, and the given cells are unchanged *)
C2_SolversComplete ==
  \A kind \in {"solve", "hsolve"} :
    JustDone(kind) /\ Completions # {} =>
      /\ ret.val = "True"
      /\ game.err = NoErr
      /\ Complete(game)
      /\ SetsMatchBoard(game)
      /\ Givens(game)
      /\ Cells(game) \in Completions

(* solve has just succeeded on a puzzle hsolve had to guess on *)
C2_Witness ==
  /\ JustDone("solve")
  /\ ret.val = "True"
  /\ done["hsolve"].ok
  /\ \E i \in DOMAIN done["hsolve"].game.log : done["hsolve"].game.log[i] = "_"

C6_FailureRestores ==
  ret.val = "False" => SameCells(game, ret.entry) /\ SameSets(game, ret.entry)

(* a nested hsolve call that had filled cells by deduction returned failure *)
C6_Witness ==
  /\ ret.val = "False"
  /\ ret.kind = "hsolve"
  /\ ~Idle
  /\ ret.log # ret.entry.log

IsPrefix(a, b) == Len(a) <= Len(b) /\ SubSeq(b, 1, Len(a)) = a

(* the trace the object had before the call is still at the head of its trace *)
Carried == ret.entry.log # <<>> /\ IsPrefix(ret.entry.log, game.log)

(* C11: the trace left by a top-level hsolve() or solve() holds only tokens *)
(* produced by that call, none left by an earlier solve on the same object  *)
(* or on the object it was copied from                                      *)
C11_TraceStartsEmpty ==
  \A kind \in {"hsolve", "solve"} : JustDone(kind) => ~Carried

(* the token of a sweep that filled n cells *)
SweepTok(c, n) ==
  IF n > 0 THEN <<c, Digit[(n \div 10) + 1], Digit[(n % 10) + 1], " ">> ELSE <<>>

(* the trace of the frames that lead from the object e to the solved board bd: *)
(* each frame sweeps, and guesses the value bd holds in its branching square   *)
RECURSIVE PathTrace(_, _)
PathGuess(d, sq, bd) == PathTrace(fill(d, sq, bd[sq]), bd)

PathRest(d, open1, bd) ==
  IF Len(open1) = 0 THEN <<>> ELSE <<"_", "r", "_", " ">> \o PathGuess(d, open1[1], bd)

PathS(r2, bd) == SweepTok("s", r2[2]) \o PathRest(r2[1], get_opens_by_dof(r2[1], TRUE), bd)

PathI(r1, bd) == SweepTok("i", r1[2]) \o PathS(subtract_loop(r1[1], 0), bd)

PathTrace(e, bd) ==
  IF \A sq \in Squares : e.board[sq] # 0 THEN <<>> ELSE PathI(intersect_loop(e, 0), bd)

(* C12: when hsolve() started with an empty trace returns success, the trace *)
(* is the concatenation, over the frames on the path from the root to the    *)
(* solution, of the frame's iNN token, its sNN token and one _r_ token if it *)
(* guessed; nothing produced in a branch that failed is in it                *)
C12_TraceIsWinningPath ==
  JustDone("hsolve") /\ ret.val = "True" /\ ret.entry.log = <<>> =>
    game.log = PathTrace(ret.entry, game.board)

(* hsolve has succeeded after guessing, with both kinds of sweep in its trace *)
C12_Witness ==
  /\ JustDone("hsolve") /\ ret.val = "True" /\ ret.entry.log = <<>>
  /\ \E i, j, k \in DOMAIN game.log :
       game.log[i] = "_" /\ game.log[j] = "s" /\ game.log[k] = "i"

(* C13: two runs of hsolve() from the same starting board leave the same    *)
(* trace and the same result, whatever order the values of a guessed cell   *)
(* are taken in                                                             *)
C13_TraceReproducible ==
  JustDone("hsolve") /\ last.op = "repeat" =>
    /\ game.log = last.before.log
    /\ (ret.val = "True") = (last.n = 1)

(* ----------------------- copies ----------------------- *)

C15_OptionsAreIntersection ==
  last.op = "get_sq_options" =>
    /\ last.before.board[last.sq] = 0 =>
          last.options = {v \in initset : /\ v \in last.before.rows[get_row(last.sq)]
                                         /\ v \in last.before.cols[get_col(last.sq)]
                                         /\ v \in last.before.boxes[get_box(last.sq)]}
    /\ last.before.board[last.sq] # 0 => last.options = {}
    /\ SameCells(game, last.before)
    /\ SameSets(game, last.before)

(* an empty square whose row, column and box sets differ has been queried, *)
(* and so has an occupied one                                              *)
C15_Witness ==
  /\ last.op = "get_sq_options"
  /\ game.board[last.sq] = 0
  /\ last.options # {}
  /\ last.options # game.rows[get_row(last.sq)] \cap game.cols[get_col(last.sq)]

(* the values of sq that no other empty square of the unit can take *)
OnlyHere(g, sq, squares) ==
  {v \in get_sq_options(g, sq) :
     \A j \in DOMAIN squares :
        squares[j] # sq /\ g.board[squares[j]] = 0 => v \notin get_sq_options(g, squares[j])}

UnitsOf(sq) ==
  <<get_sqs_in_row(get_row(sq)), get_sqs_in_col(get_col(sq)), get_sqs_in_box(get_box(sq))>>

(* C16: sq_has_unique(sq) returns the single value left by the first of    *)
(* row, column, box (in that order) in which exactly one candidate of sq   *)
(* is a candidate of no other empty square; None when no unit leaves       *)
(* exactly one, as on every occupied square; a value returned is one of    *)
(* get_sq_options(sq); the call changes nothing.                           *)
C16_UniqueIsFirstUnit ==
  last.op = "sq_has_unique" =>
    LET g == last.before
        sq == last.sq
        hits == {u \in 1 .. 3 : Cardinality(OnlyHere(g, sq, UnitsOf(sq)[u])) = 1}
    IN  /\ hits = {} => last.found = None
        /\ hits # {} =>
              \E u \in hits, v \in initset :
                 /\ \A w \in hits : u <= w
                 /\ OnlyHere(g, sq, UnitsOf(sq)[u]) = {v}
                 /\ last.found = <<v>>
        /\ g.board[sq] # 0 => last.found = None
        /\ last.found # None => last.found[1] \in get_sq_options(g, sq)
        /\ SameCells(game, g)
        /\ SameSets(game, g)

(* a value has been found in the box of a square that has other options, *)
(* after its row and its column left more than one                       *)
C16_Witness ==
  /\ last.op = "sq_has_unique"
  /\ last.found # None
  /\ Cardinality(get_sq_options(game, last.sq)) > 1
  /\ Cardinality(OnlyHere(game, last.sq, UnitsOf(last.sq)[1])) # 1
  /\ Cardinality(OnlyHere(game, last.sq, UnitsOf(last.sq)[2])) # 1

(* ======================= notes ======================= *)
(* C17: after any sequence of setTranspose calls a note has the degree    *)
(* name it had when it was made, and its name is that of its degree       *)
(* shifted by the offset of the latest call alone: offsets do not add up. *)
C17_TransposeReplaces ==
  note.offsets # <<>> =>
    /\ getDegreeName(note.self) = note.born
    /\ getName(note.self)
         = degreeToNote(note.self.degree + note.offsets[Len(note.offsets)], note.self.key)

(* a note transposed twice whose name is not the one both offsets together *)
(* would give                                                              *)
C17_Witness ==
  /\ Len(note.offsets) = 2
  /\ getName(note.self)
       # degreeToNote(note.self.degree + note.offsets[1] + note.offsets[2], note.self.key)
  /\ getName(note.self) # degreeToNote(note.self.degree, note.self.key)

(* ======================= fill ======================= *)
(* a client has called fill(sq, value) on a square that was empty / occupied *)
FilledEmpty == last.op = "fill" /\ last.value # 0 /\ last.before.board[last.sq] = 0
FilledOccupied == last.op = "fill" /\ last.before.board[last.sq] # 0

(* C18: fill(sq, v) with v # 0 on an empty square succeeds exactly when v   *)
(* is in the row set, the column set and the box set of sq; when it does,   *)
(* board[sq] = v, v has left those three sets, and every other cell, the    *)
(* other 24 sets and the other members of the three sets are as before.     *)
C18_FillFrame ==
  FilledEmpty =>
    LET g == last.before
        sq == last.sq
        v == last.value
    IN  /\ game.err = NoErr <=>
              v \in g.rows[get_row(sq)] /\ v \in g.cols[get_col(sq)] /\ v \in g.boxes[get_box(sq)]
        /\ game.err = NoErr =>
              /\ game.board[sq] = v
              /\ \A i \in Squares \ {sq} : game.board[i] = g.board[i]
              /\ \A u \in Units :
                    /\ game.rows[u] = IF u = get_row(sq) THEN g.rows[u] \ {v} ELSE g.rows[u]
                    /\ game.cols[u] = IF u = get_col(sq) THEN g.cols[u] \ {v} ELSE g.cols[u]
                    /\ game.boxes[u] = IF u = get_box(sq) THEN g.boxes[u] \ {v} ELSE g.boxes[u]

(* a fill has succeeded on an empty square of a board that holds values *)
C18_Witness ==
  /\ FilledEmpty
  /\ game.err = NoErr
  /\ \E i \in Squares : last.before.board[i] # 0

(* C19: fill(sq, v) on an occupied square does what unfill(sq) followed by  *)
(* fill(sq, v) on the emptied square does, result included: v is judged     *)
(* with the old value back in the sets, so giving a square the value it     *)
(* holds succeeds and changes nothing; fill(sq, 0) does what unfill(sq)     *)
(* does and returns the empty set.                                          *)
C19_FillReplaces ==
  /\ FilledOccupied =>
        LET g == last.before
            sq == last.sq
            emptied == [g EXCEPT !.board[sq] = 0,
                                 !.rows[get_row(sq)] = @ \cup {g.board[sq]},
                                 !.cols[get_col(sq)] = @ \cup {g.board[sq]},
                                 !.boxes[get_box(sq)] = @ \cup {g.board[sq]}]
        IN  /\ unfill(g, sq) = emptied
            /\ game = fill(emptied, sq, last.value)
            /\ last.completed = fill_result(emptied, sq, last.value)
            /\ last.value = g.board[sq] =>
                  game.err = NoErr /\ SameCells(game, g) /\ SameSets(game, g)
  /\ last.op = "fill" /\ last.value = 0 =>
        game = unfill(last.before, last.sq) /\ last.completed = {}

(* an occupied square has been given another value *)
C19_Witness ==
  /\ FilledOccupied
  /\ game.err = NoErr
  /\ last.value # 0
  /\ last.value # last.before.board[last.sq]

(* ======================= the search ======================= *)
Freedom(g, sq) == Cardinality(get_sq_options(g, sq))

(* sq is the open square the search is to branch on: none has fewer options *)
(* (more, when most), and none of those with as many has a lower index      *)
BranchSquare(g, sq, most) ==
  /\ g.board[sq] = 0
  /\ \A i \in Squares \ {sq} :
        g.board[i] = 0 =>
          \/ IF most THEN Freedom(g, i) < Freedom(g, sq) ELSE Freedom(g, i) > Freedom(g, sq)
          \/ Freedom(g, i) = Freedom(g, sq) /\ sq < i

(* C20: a frame of a search tries values on one open square only, the first *)
(* of get_opens_by_dof: the one with the fewest options for solve() and the *)
(* most for hsolve(), the lowest index among equals; whenever the frame is  *)
(* about to try a value or to give up, that is the square it is working on, *)
(* and the values left to try are options of it.                            *)
C20_OneSquarePerFrame ==
  \A kind \in Solvers :
    Running(kind, "loop") =>
      /\ BranchSquare(game, Top.sq, kind = "hsolve")
      /\ Top.opts \subseteq get_sq_options(game, Top.sq)

(* ======================= the deduction passes ======================= *)
(* the empty squares of g that have exactly one option *)
NakedSingles(g) == {sq \in Squares : g.board[sq] = 0 /\ Freedom(g, sq) = 1}

(* the squares that were empty in g and hold a value in h *)
NewlyFilled(g, h) == {sq \in Squares : g.board[sq] = 0 /\ h.board[sq] # 0}

(* C21: when a call of intersect() returns, no empty square has exactly one *)
(* option, and the number returned is the number of squares that were empty *)
(* before the call and hold a value after it.                               *)
C21_IntersectExhausts ==
  last.op = "intersect" /\ game.err = NoErr =>
    /\ NakedSingles(game) = {}
    /\ last.n = Cardinality(NewlyFilled(last.before, game))

(* the empty squares of g that have no option left *)
DeadEnds(g) == {sq \in Squares : g.board[sq] = 0 /\ Freedom(g, sq) = 0}

(* the object as a client finds it, after naked-single filling to exhaustion *)
(* with the squares scanned in the given order                               *)
Exhausted(order) == exhaust_in(Cleared(game), order)

VisitedUnit(u) ==
  IF u < 9 THEN SortedSeq({sq \in Squares : get_box(sq) = u})
  ELSE IF u < 18 THEN SortedSeq({sq \in Squares : get_row(sq) = u - 9})
  ELSE SortedSeq({sq \in Squares : get_col(sq) = u - 18})

(* g with value v put in the empty square sq *)
Put(g, sq, v) ==
  [g EXCEPT !.board[sq] = v,
            !.rows[get_row(sq)] = @ \ {v},
            !.cols[get_col(sq)] = @ \ {v},
            !.boxes[get_box(sq)] = @ \ {v}]

(* st = <<g, n>> after the square sq of a unit has been examined: it gets v *)
(* exactly when v alone is an option of sq and of no other empty square     *)
Examined(st, squares, sq) ==
  IF st[1].board[sq] = 0 /\ Cardinality(OnlyHere(st[1], sq, squares)) = 1
  THEN <<Put(st[1], sq, CHOOSE v \in OnlyHere(st[1], sq, squares) : TRUE), st[2] + 1>>
  ELSE st

(* the visits lo .. hi of the 27 * 9 examinations of a sweep, in their order *)
RECURSIVE Swept(_, _, _)
Swept(st, lo, hi) ==
  IF lo > hi \/ st[2] < 0 THEN st
  ELSE IF lo = hi THEN Examined(st, VisitedUnit(lo \div 9), VisitedUnit(lo \div 9)[(lo % 9) + 1])
  ELSE Swept(Swept(st, lo, (lo + hi) \div 2), (lo + hi) \div 2 + 1, hi)

(* C23: subtract() visits the 9 boxes, then the 9 rows, then the 9 columns, *)
(* once each; in a unit it fills an empty square with v exactly when, as    *)
(* the square is examined, v is the one option of the square that no other  *)
(* empty square of the unit has; it returns the number of squares filled.   *)
C23_SubtractSweep ==
  last.op = "subtract" =>
    /\ game.err = NoErr
    /\ SameCells(game, Swept(<<last.before, 0>>, 0, 242)[1])
    /\ SameSets(game, Swept(<<last.before, 0>>, 0, 242)[1])
    /\ last.n = Swept(<<last.before, 0>>, 0, 242)[2]
    /\ last.n = Cardinality(NewlyFilled(last.before, game))

(* a sweep has filled squares, one of them in a row after the boxes had *)
(* been gone through                                                    *)
C23_Witness ==
  /\ last.op = "subtract"
  /\ last.n > 0
  /\ Swept(<<last.before, 0>>, 0, 80)[2] < last.n

(* the empty squares of g to which one of their units leaves a single value *)
HiddenSingles(g) ==
  {sq \in Squares :
     g.board[sq] = 0 /\ \E u \in 1 .. 3 : Cardinality(OnlyHere(g, sq, UnitsOf(sq)[u])) = 1}

(* a solver that deduces before it guesses is about to give a square a value *)
(* that it has not deduced                                                   *)
AboutToGuess ==
  \E kind \in {"hsolve", "copysolve"} : Running(kind, "loop") /\ Top.opts # {}

(* C24: whenever hsolve(), or solve() of src/sudoku.py, assigns a guessed   *)
(* value, both deduction passes are at their fixed point: no empty square   *)
(* has exactly one option and no unit leaves a single value to a square.    *)
C24_GuessAtFixedPoint ==
  AboutToGuess => NakedSingles(game) = {} /\ HiddenSingles(game) = {}

(* ======================= failure ======================= *)
(* C25: when solve() of src/sudoku.py returns None, the object it was       *)
(* called on has the cells and the candidate sets it had when the call was  *)
(* entered; a guess is made on a clone and leaves the object of the frame   *)
(* that made it as it was.                                                  *)
C25_CopyFailureKeepsBoard ==
  /\ ret.kind = "copysolve" /\ ret.val = "None" =>
        SameCells(game, ret.entry) /\ SameSets(game, ret.entry)
  /\ \A d \in DOMAIN stack :
        stack[d].kind = "copysolve" /\ stack[d].pc = "wait" /\ d < Len(stack) =>
          /\ stack[d].self.board[stack[d].sq] = 0
          /\ stack[d + 1].entry.board[stack[d].sq] # 0
          /\ \A sq \in Squares \ {stack[d].sq} :
                stack[d + 1].entry.board[sq] = stack[d].self.board[sq]

(* C26: when hsolve() returns failure, the trace is the trace the object   *)
(* had when that call was entered: no token of the failed call is left.    *)
C26_FailureRestoresTrace ==
  ret.kind = "hsolve" /\ ret.val = "False" => game.log = ret.entry.log

(* ======================= assertions ======================= *)
(* C27: on a board loaded with its candidate sets in step, no assertion of  *)
(* fill or unfill fails in the deduction passes, in solve(), in hsolve(),   *)
(* in the copy constructor or in the copy-back of a solution, on boards     *)
(* with a completion and on boards without one.                             *)
C27_NoAssertionFails ==
  /\ game.err = NoErr
  /\ ret.val # "raise"
  /\ \A k \in Solvers : ~done[k].raised

(* all three solvers have gone through a board without completion that *)
(* takes guesses and retractions                                       *)
C27_Witness ==
  /\ prob = GridDeadDeep
  /\ \A k \in Solvers : done[k].run /\ ~done[k].ok

(* ======================= termination ======================= *)
(* every call in progress was made on a board with more squares filled *)
(* than the board its caller was entered with                          *)
CallsFillMore ==
  \A d \in 1 .. (Len(stack) - 1) : nfilled(stack[d + 1].entry) > nfilled(stack[d].entry)

(* the calls in progress below the top-level one are no more than the *)
(* squares that were empty when the top-level call was made           *)
DepthBounded ==
  ~Idle => /\ Top.depth = Len(stack) - 1
           /\ Top.depth <= NSquares - nfilled(stack[1].entry)

(* the sweeps a deduction loop makes from g, the last one, which fills *)
(* nothing, included                                                   *)
RECURSIVE IntersectSweeps(_)
IntersectSweeps(g) ==
  IF intersect(g)[2] = 0 THEN 1 ELSE 1 + IntersectSweeps(intersect(g)[1])

RECURSIVE SubtractSweeps(_)
SubtractSweeps(g) ==
  IF subtract(g)[2] = 0 THEN 1 ELSE 1 + SubtractSweeps(subtract(g)[1])

(* a call that deduces is about to: neither of its loops makes more sweeps *)
(* than there are empty squares, plus the last one                         *)
SweepsBounded ==
  \A kind \in {"hsolve", "copysolve"} :
    Running(kind, "enter") =>
      /\ IntersectSweeps(game) <= NSquares - nfilled(game) + 1
      /\ SubtractSweeps(intersect_loop(game, 0)[1]) <= NSquares - nfilled(game) + 1

(* what is left to do in a frame: the open squares still to come (copying *)
(* solver), the values still to try, the place in the body                *)
Todo(f) ==
  IF f.pc = "enter" THEN 32 * (NSquares + 1)
  ELSE IF f.pc = "pick" THEN 32 * (Len(f.opens) - f.k) + 31
  ELSE 32 * (Len(f.opens) - f.k) + 3 * Cardinality(f.opts) + (IF f.pc = "wait" THEN 3 ELSE 2)

(* t comes before s in the order by the first frame that differs: s with *)
(* frames taken off the top, or with less left to do in one frame and    *)
(* anything above it                                                     *)
Less(t, s) ==
  \/ Len(t) < Len(s) /\ \A d \in 1 .. Len(t) : Todo(t[d]) = Todo(s[d])
  \/ \E d \in 1 .. Len(s) :
        /\ d <= Len(t)
        /\ Todo(t[d]) < Todo(s[d])
        /\ \A e \in 1 .. (d - 1) : Todo(t[e]) = Todo(s[e])

(* C28: solve(), hsolve() and the solve() of src/sudoku.py terminate on     *)
(* every board: every step of a call in progress leaves less to do, in an   *)
(* order that has no endless descent; each deduction loop stops after a     *)
(* bounded number of sweeps; every recursive call is made on a board with   *)
(* more filled squares than its caller had at entry; and the depth of the   *)
(* recursion is at most the number of squares that were empty at the        *)
(* top-level call.                                                          *)
C28_SolversTerminate ==
  [][/\ ~Idle => Less(stack', stack)
     /\ SweepsBounded
     /\ CallsFillMore'
     /\ DepthBounded']_vars

(* a recursion as deep as the number of squares that were empty at the top *)
C28_Witness ==
  /\ ~Idle
  /\ Top.depth > 0
  /\ Top.depth = NSquares - nfilled(stack[1].entry)

(* ======================= the rating ======================= *)
(* the k-th group of four characters of a trace, k = 1, 2, ... *)
Token(log, k) == SubSeq(log, 4 * k - 3, 4 * k)

IsGuessToken(t) == t = <<"_", "r", "_", " ">>

IsSweepToken(t) == t[1] \in {"i", "s"} /\ IsDigit(t[2]) /\ IsDigit(t[3]) /\ t[4] = " "

(* the squares a token accounts for: NN for a sweep token, one for a guess *)
TokenCount(t) == IF IsGuessToken(t) THEN 1 ELSE 10 * int(t[2]) + int(t[3])

RECURSIVE CountUpTo(_, _)
CountUpTo(log, k) == IF k = 0 THEN 0 ELSE CountUpTo(log, k - 1) + TokenCount(Token(log, k))

(* C29: when hsolve() started with an empty trace returns success, the      *)
(* trace is a run of 4-character tokens 'iNN ', 'sNN ' and '_r_ ', the NN   *)
(* of the sweep tokens and the number of guess tokens add up to the number  *)
(* of squares that were empty when the call started, and so the rating      *)
(* stored for the game is 4 times the number of tokens.                     *)
C29_TraceCountsCells ==
  JustDone("hsolve") /\ ret.val = "True" /\ ret.entry.log = <<>> =>
    /\ Len(game.log) % 4 = 0
    /\ \A k \in 1 .. (Len(game.log) \div 4) :
          IsGuessToken(Token(game.log, k)) \/ IsSweepToken(Token(game.log, k))
    /\ Len(game.log) % 4 = 0 =>
          CountUpTo(game.log, Len(game.log) \div 4) = NSquares - nfilled(ret.entry)
    /\ rating(game.log) = 4 * (Len(game.log) \div 4)

(* a success whose trace has a sweep of fewer than ten squares and guesses *)
C29_Witness ==
  /\ JustDone("hsolve")
  /\ ret.val = "True"
  /\ ret.entry.log = <<>>
  /\ \E k \in 1 .. (Len(game.log) \div 4) :
        ~IsGuessToken(Token(game.log, k)) /\ TokenCount(Token(game.log, k)) < 10
  /\ \E k \in 1 .. (Len(game.log) \div 4) : IsGuessToken(Token(game.log, k))

(* ======================= loading over a used board ======================= *)
(* the 81 values an argument of preload stands for *)
GridOf(arg) ==
  IF arg.kind = "str" THEN [i \in DOMAIN arg.val |-> int(arg.val[i])] ELSE arg.val

Fresh(g) == \A sq \in Squares : g.board[sq] = 0

Loaded(g, bd) ==
  /\ g.err = NoErr
  /\ \A sq \in Squares : g.board[sq] = bd[sq + 1]
  /\ SetsMatchBoard(g)

GoodLoad == last.op = "preload" /\ last.arg \in GoodArgs /\ Consistent(GridOf(last.arg))

(* C30: preload of a self-consistent 81-cell grid succeeds on a board in   *)
(* any reachable state, fresh or not, leaves every cell equal to the grid  *)
(* (0 is empty) and leaves the candidate sets matching the board           *)
C30_PreloadOnAnyBoard == GoodLoad => last.rv = 0 /\ Loaded(game, GridOf(last.arg))

(* a value the grid gives to a square is still held by a later square of *)
(* the same row, column or box                                            *)
Blocked(g, bd) ==
  \E sq \in Squares : \E p \in PeersOf[sq] :
    p > sq /\ bd[sq + 1] # 0 /\ g.board[p] = bd[sq + 1]

(* C30, amended: the load succeeds, with every cell equal to the grid and *)
(* the candidate sets matching, exactly on the boards, the fresh one      *)
(* among them, where no later square of the scan holds a value the grid   *)
(* gives to an earlier square of its row, column or box; on the other     *)
(* boards it raises AssertionError                                        *)
C30_PreloadWhereClear ==
  GoodLoad =>
    /\ Fresh(last.before) => ~Blocked(last.before, GridOf(last.arg))
    /\ IF Blocked(last.before, GridOf(last.arg))
       THEN game.err = AssertionError
       ELSE last.rv = 0 /\ Loaded(game, GridOf(last.arg))

(* a load over a used board whose square 0 the grid leaves empty *)
C30_Witness ==
  /\ GoodLoad
  /\ ~Fresh(last.before)
  /\ last.before.board[0] # 0
  /\ GridOf(last.arg)[1] = 0
  /\ Loaded(game, GridOf(last.arg))
====
